---- MODULE Spec2Model ----
(***************************************************************************)
(* Peer connection lifecycle of the Dashboard component                    *)
(* (src/components/Dashboard.tsx): the signaling handle (peerRef), the     *)
(* single connection slot (connectionRef), the retry timer                 *)
(* (retryTimeoutRef), the connected flag and the message log.              *)
(*                                                                         *)
(* The PeerJS objects are the environment.  A DataConnection is            *)
(* "connecting" until its data channel opens, then "open" (its .open flag  *)
(* is true), then "closed".  Events are delivered one at a time, in any    *)
(* order relative to user actions and timers.                              *)
(*                                                                         *)
(* The call view (src/components/LiveInterface.tsx) is modelled with the   *)
(* Dashboard state it is given: each mounted LiveInterface is an instance  *)
(* with its own callRef, localStreamRef, callActive and callStatus; a      *)
(* MediaConnection is "ringing" until answered, then "live", then          *)
(* "closed"; every getUserMedia request is a pending continuation of       *)
(* startCall or answerCall that later succeeds or fails.                   *)
(***************************************************************************)
EXTENDS Integers, Sequences, FiniteSets, Bags, TLC

\* ---- bounds of the model ------------------------------------------------
MaxConns  == 2      \* DataConnection objects created in one run
MaxTimers == 3      \* setTimeout calls in one run
MaxPeers  == 2      \* Peer objects created in one run
MaxLog    == 2      \* length of the message log
MaxCalls   == 2     \* MediaConnection objects created in one run
MaxStreams == 2     \* getUserMedia streams obtained in one run
MaxMounts  == 1     \* times the LiveInterface is mounted in one run

ConnIds  == 1..(MaxConns + 1)   \* SpecWide allows one connection more
TimerIds == 1..MaxTimers
PeerIds  == 1..MaxPeers
Payloads == {"m1", "m2"}
CallIds   == 1..MaxCalls
StreamIds == 1..MaxStreams
InstIds   == 1..MaxMounts

\* err.type values the error handler distinguishes, plus one other kind
FatalTypes == {"network", "disconnected", "server-error", "socket-error"}
ErrTypes   == {"peer-unavailable"} \cup FatalTypes \cup {"webrtc"}

VARIABLES
  peerRef,          \* peerRef.current: 0 is null, else a Peer id
  peers,            \* Peer id -> "unborn" | "init" | "open" | "destroyed"
  connectionRef,    \* connectionRef.current: 0 is null, else a connection id
  conns,            \* connection id -> [st, hooked, dir]
  isConnected,      \* the isConnected React state
  retryTimeoutRef,  \* retryTimeoutRef.current: 0 is null, else a timer id
  timers,           \* timer id -> "unborn" | "pu" | "close" | "fired" | "canceled"
  messages,         \* the messages React state (the log)
  mounted,          \* the mount effect is active (not cleaned up)
  connCap,          \* how many DataConnection objects this run may create
  tx,               \* what the handler that ran last passed to connection.send
  peer,             \* Dashboard's peer state (setPeer), passed to LiveInterface
  incomingCall,     \* Dashboard's incomingCall state: a call id, 0 = null
  liveInst,         \* the mounted LiveInterface instance, 0 = view is not LIVE
  views,            \* LiveInterface instance -> its refs and state
  calls,            \* MediaConnection objects
  streams,          \* local MediaStream objects
  acq,              \* bag of the getUserMedia requests awaited by
                    \* startCall/answerCall
  ends,             \* two endpoints that target each other: endpoint -> the
                    \* state of its Dashboard
  links,            \* the connections between them: who originated, and the
                    \* DataConnection id at each end (rid 0: offer in flight)
  lastOp            \* history: the handler that ran last, and whether the
                    \* handle that emitted the event was connectionRef.current
                    \* (for a call event: the mounted instance's callRef; for
                    \* an incoming call: it arrived while a call was active;
                    \* for a media request: it belongs to the mounted instance);
                    \* for a data event also the message that arrived

vars == <<peerRef, peers, connectionRef, conns, isConnected, retryTimeoutRef,
          timers, messages, mounted, connCap, tx, lastOp,
          peer, incomingCall, liveInst, views, calls, streams, acq,
          ends, links>>

callVars == <<incomingCall, liveInst, views, calls, streams, acq>>

\* nothing was passed to connection.send
NoTx == [conn |-> 0, msg |-> ""]

\* ---- the program state as one record, for composing handlers -------------
Cur ==
  [peerRef |-> peerRef, peers |-> peers, connectionRef |-> connectionRef,
   conns |-> conns, isConnected |-> isConnected,
   retryTimeoutRef |-> retryTimeoutRef, timers |-> timers,
   messages |-> messages, cap |-> connCap, tx |-> NoTx, peer |-> peer,
   ok |-> TRUE]

Set(s) ==
  /\ s.ok
  /\ peerRef' = s.peerRef
  /\ peers' = s.peers
  /\ connectionRef' = s.connectionRef
  /\ conns' = s.conns
  /\ isConnected' = s.isConnected
  /\ retryTimeoutRef' = s.retryTimeoutRef
  /\ timers' = s.timers
  /\ messages' = s.messages
  /\ connCap' = connCap
  /\ tx' = s.tx
  /\ peer' = s.peer
  /\ UNCHANGED callVars
  /\ UNCHANGED <<ends, links>>

Min(S) == CHOOSE x \in S : \A y \in S : x <= y

Unborn == [st |-> "unborn", hooked |-> FALSE, dir |-> "none"]

\* a closed handle emits nothing more: its handlers and its origin no longer
\* matter, so every closed handle is the same record
Closed == [st |-> "closed", hooked |-> FALSE, dir |-> "none"]

Live(cn) == cn.st \in {"connecting", "open"}

FreeConns(s)  == {c \in 1..s.cap : s.conns[c].st = "unborn"}
FreeTimers(s) == {t \in TimerIds : s.timers[t] = "unborn"}
FreePeers(s)  == {p \in PeerIds : s.peers[p] = "unborn"}

Pending(tm) == {t \in TimerIds : tm[t] \in {"pu", "close"}}

\* clearTimeout(id): cancels the timer if it is still pending, else nothing
ClearTimeout(s, t) ==
  IF t # 0 /\ s.timers[t] \in {"pu", "close"}
  THEN [s EXCEPT !.timers[t] = "canceled"]
  ELSE s

\* setTimeout(connectToPeer, delay): a fresh pending timer, its id stored
\* in retryTimeoutRef.current
SetRetryTimeout(s, kind) ==
  IF FreeTimers(s) = {}
  THEN [s EXCEPT !.ok = FALSE]
  ELSE LET t == Min(FreeTimers(s))
       IN [s EXCEPT !.timers[t] = kind, !.retryTimeoutRef = t]

\* setupConnection without the "already open" guard of line 144
SetupConnection_AlwaysAdopt(s, c) ==
  [s EXCEPT !.connectionRef = c, !.conns[c].hooked = TRUE]

\* Dashboard.tsx 142-186: setupConnection(connection)
SetupConnection(s, c) ==
  IF s.connectionRef # 0 /\ s.conns[s.connectionRef].st = "open"
  THEN s
  ELSE [s EXCEPT !.connectionRef = c, !.conns[c].hooked = TRUE]

\* connectToPeer that only skips when the registered handle is open
ConnectToPeer_OpenOnly(s) ==
  IF s.peerRef = 0 \/ s.peers[s.peerRef] = "destroyed" THEN s
  ELSE IF s.connectionRef # 0 /\ s.conns[s.connectionRef].st = "open" THEN s
  ELSE IF FreeConns(s) = {} THEN [s EXCEPT !.ok = FALSE]
  ELSE LET c == Min(FreeConns(s))
       IN SetupConnection(
            [s EXCEPT !.conns[c] =
               [st |-> "connecting", hooked |-> FALSE, dir |-> "out"]], c)

\* connectToPeer without the connectionRef check of lines 122-130
ConnectToPeer_NoSlotCheck(s) ==
  IF s.peerRef = 0 \/ s.peers[s.peerRef] = "destroyed" THEN s
  ELSE IF FreeConns(s) = {} THEN [s EXCEPT !.ok = FALSE]
  ELSE LET c == Min(FreeConns(s))
       IN SetupConnection(
            [s EXCEPT !.conns[c] =
               [st |-> "connecting", hooked |-> FALSE, dir |-> "out"]], c)

\* Dashboard.tsx 116-140: connectToPeer()
ConnectToPeer(s) ==
  IF s.peerRef = 0 \/ s.peers[s.peerRef] = "destroyed" THEN s
  ELSE IF s.connectionRef # 0 THEN s
  ELSE IF FreeConns(s) = {} THEN [s EXCEPT !.ok = FALSE]
  ELSE LET c == Min(FreeConns(s))
       IN SetupConnection(
            [s EXCEPT !.conns[c] =
               [st |-> "connecting", hooked |-> FALSE, dir |-> "out"]], c)

\* Dashboard.tsx 150-159: connection.on('open')
OnConnOpen(s, c) ==
  LET s1 == [s EXCEPT !.isConnected = TRUE]
  IN IF s1.retryTimeoutRef # 0
     THEN [ClearTimeout(s1, s1.retryTimeoutRef) EXCEPT !.retryTimeoutRef = 0]
     ELSE s1

\* the data handler dropping a message equal to the last one in the log
OnConnData_Dedup(s, c, d) ==
  IF s.messages # <<>> /\ s.messages[Len(s.messages)] = d
  THEN s
  ELSE [s EXCEPT !.messages = Append(s.messages, d)]

\* Dashboard.tsx 161-163: connection.on('data')
OnConnData(s, c, d) ==
  [s EXCEPT !.messages = Append(s.messages, d)]

\* Dashboard.tsx 165-177: connection.on('close')
OnConnClose(s, c) ==
  IF s.connectionRef = c
  THEN LET s1 == [s EXCEPT !.isConnected = FALSE, !.connectionRef = 0]
       IN IF s1.peerRef # 0 /\ s1.peers[s1.peerRef] # "destroyed"
          THEN SetRetryTimeout(s1, "close")
          ELSE s1
  ELSE s

\* Dashboard.tsx 179-185: connection.on('error')
OnConnError(s, c) ==
  IF s.connectionRef = c
  THEN [s EXCEPT !.isConnected = FALSE, !.connectionRef = 0]
  ELSE s

\* connection.close() as called at Dashboard.tsx 44: the handle is closed;
\* an open handle emits 'close', either inside the call (sync) or not at all
\* once its handlers are gone
CloseConnection(s, c, sync) ==
  LET wasOpen == s.conns[c].st = "open"
      hooked  == s.conns[c].hooked
      s1 == [s EXCEPT !.conns[c] = Closed]
  IN IF wasOpen /\ hooked /\ sync THEN OnConnClose(s1, c) ELSE s1

\* peer.destroy() as called at Dashboard.tsx 45: the Peer is destroyed and
\* every connection it still holds is closed
DestroyPeer(s, p) ==
  [s EXCEPT !.peers[p] = "destroyed",
            !.conns = [c \in ConnIds |->
                         IF Live(s.conns[c])
                         THEN Closed
                         ELSE s.conns[c]]]

\* Dashboard.tsx 42-49: cleanupPeer()
CleanupPeer(s, sync) ==
  LET s1 == ClearTimeout(s, s.retryTimeoutRef)
      s2 == IF s1.connectionRef # 0
            THEN CloseConnection(s1, s1.connectionRef, sync) ELSE s1
      s3 == IF s2.peerRef # 0 THEN DestroyPeer(s2, s2.peerRef) ELSE s2
  IN [s3 EXCEPT !.connectionRef = 0, !.peerRef = 0, !.isConnected = FALSE]

\* Dashboard.tsx 51-69: initializePeer() up to the handler registration
InitializePeer(s, sync) ==
  LET s1 == IF s.peerRef # 0 THEN CleanupPeer(s, sync) ELSE s
  IN IF FreePeers(s1) = {} THEN [s1 EXCEPT !.ok = FALSE]
     ELSE LET p == Min(FreePeers(s1))
          IN [s1 EXCEPT !.peers[p] = "init", !.peerRef = p]

\* the error handler without the clearTimeout of line 102
OnPeerError_NoClear(s, p, type) ==
  IF type = "peer-unavailable"
  THEN LET s1 == IF s.connectionRef # 0
                    /\ s.conns[s.connectionRef].st # "open"
                 THEN [s EXCEPT !.connectionRef = 0] ELSE s
           s2 == [s1 EXCEPT !.isConnected = FALSE]
       IN SetRetryTimeout(s2, "pu")
  ELSE IF type \in FatalTypes
  THEN LET s1 == [s EXCEPT !.isConnected = FALSE]
       IN IF s1.peers[p] # "destroyed"
          THEN [s1 EXCEPT !.peers[p] = "init"]
          ELSE s1
  ELSE s

\* the error handler treating every kind it does not name as fatal
OnPeerError_OtherIsFatal(s, p, type) ==
  IF type = "peer-unavailable"
  THEN LET s1 == IF s.connectionRef # 0
                    /\ s.conns[s.connectionRef].st # "open"
                 THEN [s EXCEPT !.connectionRef = 0] ELSE s
           s2 == [s1 EXCEPT !.isConnected = FALSE]
           s3 == ClearTimeout(s2, s2.retryTimeoutRef)
       IN SetRetryTimeout(s3, "pu")
  ELSE LET s1 == [s EXCEPT !.isConnected = FALSE]
       IN IF s1.peers[p] # "destroyed"
          THEN [s1 EXCEPT !.peers[p] = "init"]
          ELSE s1

\* Dashboard.tsx 89-113: newPeer.on('error'); p is newPeer
OnPeerError(s, p, type) ==
  IF type = "peer-unavailable"
  THEN LET s1 == IF s.connectionRef # 0
                    /\ s.conns[s.connectionRef].st # "open"
                 THEN [s EXCEPT !.connectionRef = 0] ELSE s
           s2 == [s1 EXCEPT !.isConnected = FALSE]
           s3 == ClearTimeout(s2, s2.retryTimeoutRef)
       IN SetRetryTimeout(s3, "pu")
  ELSE IF type \in FatalTypes
  THEN LET s1 == [s EXCEPT !.isConnected = FALSE]
       IN IF s1.peers[p] # "destroyed"
          THEN [s1 EXCEPT !.peers[p] = "init"]     \* newPeer.reconnect()
          ELSE s1
  ELSE s

\* sendMessage putting the sent message at the head of the log
SendMessage_Prepend(s, text, outcome) ==
  IF ~s.isConnected THEN s
  ELSE IF s.connectionRef = 0 \/ ~s.isConnected THEN s
  ELSE LET c == s.connectionRef IN
       IF outcome = "ok"
       THEN [s EXCEPT !.tx = [conn |-> c, msg |-> text],
                      !.messages = <<text>> \o s.messages]
       ELSE IF outcome = "errorEvent"
       THEN LET s1 == OnConnError(s, c)
            IN [s1 EXCEPT !.messages = Append(s1.messages, text)]
       ELSE ConnectToPeer([s EXCEPT !.isConnected = FALSE])

\* Dashboard.tsx 193-214: sendMessage(text), reached through
\* ChatInterface.handleSend (Dashboard.tsx 361-367), which returns early when
\* not connected.  outcome is what connection.send does: "ok" transmits;
\* "throw" raises; "errorEvent" is a send on a handle that is not open, which
\* emits the handle's 'error' event inside the call and returns
SendMessage(s, text, outcome) ==
  IF ~s.isConnected THEN s                                  \* line 362
  ELSE IF s.connectionRef = 0 \/ ~s.isConnected THEN s      \* line 194
  ELSE LET c == s.connectionRef IN
       IF outcome = "ok"
       THEN [s EXCEPT !.tx = [conn |-> c, msg |-> text],
                      !.messages = Append(s.messages, text)]
       ELSE IF outcome = "errorEvent"
       THEN LET s1 == OnConnError(s, c)
            IN [s1 EXCEPT !.messages = Append(s1.messages, text)]
       ELSE ConnectToPeer([s EXCEPT !.isConnected = FALSE])  \* catch, 208-213

\* what connection.send can do on handle c
SendOutcomes(c) ==
  IF conns[c].st = "open" THEN {"ok", "throw"} ELSE {"errorEvent", "throw"}

\* close() can emit 'close' inside the call only on a registered open handle;
\* in every other state the choice makes no difference
SyncChoices ==
  IF connectionRef # 0 /\ conns[connectionRef].st = "open"
  THEN BOOLEAN ELSE {FALSE}

\* ---- the call view (LiveInterface.tsx) ----------------------------------

NoCall == [st |-> "unborn", dir |-> "none", hookedBy |-> 0, busy |-> FALSE]
NoStream == [st |-> "unborn", by |-> 0]
MediaError == "Error: Could not access camera/mic"

\* LiveInterface.tsx 11-20: the state and refs of an instance
FreshView ==
  [born |-> FALSE, callRef |-> 0, localStreamRef |-> 0,
   callActive |-> FALSE, callStatus |-> "Ready to call"]

\* no LiveInterface was mounted yet and no call or stream exists
CallIdle ==
  /\ incomingCall = 0
  /\ liveInst = 0
  /\ views = [i \in InstIds |-> FreshView]
  /\ calls = [k \in CallIds |-> NoCall]
  /\ streams = [m \in StreamIds |-> NoStream]
  /\ acq = EmptyBag

\* the call side of the state as one record
CRec(pr, ic, li, vw, cl, sm, aq) ==
  [peer |-> pr, incomingCall |-> ic, liveInst |-> li, views |-> vw,
   calls |-> cl, streams |-> sm, acq |-> aq, ok |-> TRUE]

CCur == CRec(peer, incomingCall, liveInst, views, calls, streams, acq)

CSet(s) ==
  /\ s.ok
  /\ incomingCall' = s.incomingCall
  /\ liveInst' = s.liveInst
  /\ views' = s.views
  /\ calls' = s.calls
  /\ streams' = s.streams
  /\ acq' = s.acq
  /\ tx' = NoTx
  /\ UNCHANGED <<peerRef, peers, connectionRef, conns, isConnected,
                 retryTimeoutRef, timers, messages, mounted, connCap, peer>>
  /\ UNCHANGED <<ends, links>>

\* setCallActive / setCallStatus of instance i; React drops the state
\* updates of an instance that is no longer mounted
SetCallActive(s, i, b) ==
  IF s.liveInst = i THEN [s EXCEPT !.views[i].callActive = b] ELSE s

SetCallStatus(s, i, text) ==
  IF s.liveInst = i THEN [s EXCEPT !.views[i].callStatus = text] ELSE s

FreeCalls(s) == {k \in CallIds : s.calls[k].st = "unborn"}
FreeStreams(s) == {m \in StreamIds : s.streams[m].st = "unborn"}
FreeInsts(s) == {i \in InstIds : ~s.views[i].born}
LiveCalls(cl) == {k \in CallIds : cl[k].st = "live"}

\* LiveInterface.tsx 41-54: startLocalStream() up to its await; the request
\* stays pending with what the caller does once it resolves.  A run makes
\* no more requests than it has streams left to hand out
AwaitStream(s, cont) ==
  IF BagCardinality(s.acq) >= Cardinality(FreeStreams(s))
  THEN [s EXCEPT !.ok = FALSE]
  ELSE [s EXCEPT !.acq = s.acq (+) SetToBag({cont})]

\* LiveInterface.tsx 56-58: startCall() up to the await; the continuation
\* keeps the peer prop of the render that created it
StartCall(s, i) ==
  AwaitStream(SetCallStatus(s, i, "Starting stream..."),
              [kind |-> "start", call |-> 0, inst |-> i, peer |-> s.peer,
               ended |-> FALSE])

\* LiveInterface.tsx 66-68: answerCall(call) up to the await
AnswerCall(s, i, k) ==
  AwaitStream(SetCallStatus(s, i, "Answering..."),
              [kind |-> "answer", call |-> k, inst |-> i, peer |-> s.peer,
               ended |-> FALSE])

\* LiveInterface.tsx 22-26: the mount effect
MountEffect(s, i) ==
  IF s.incomingCall # 0 THEN AnswerCall(s, i, s.incomingCall) ELSE s

\* the incomingCall effect without the callActive test
IncomingCallEffect_NoActiveTest(s, i) ==
  IF s.incomingCall # 0
  THEN AnswerCall(s, i, s.incomingCall) ELSE s

\* LiveInterface.tsx 33-39: the effect on [incomingCall]
IncomingCallEffect(s, i) ==
  IF s.incomingCall # 0 /\ ~s.views[i].callActive
  THEN AnswerCall(s, i, s.incomingCall) ELSE s

\* Dashboard.tsx 308-315: LiveInterface is rendered; both effects run
Mount(s) ==
  IF FreeInsts(s) = {} THEN [s EXCEPT !.ok = FALSE]
  ELSE LET i == Min(FreeInsts(s))
           s1 == [s EXCEPT !.liveInst = i, !.views[i].born = TRUE]
           s2 == MountEffect(s1, i)
       IN IF s2.ok THEN IncomingCallEffect(s2, i) ELSE s2

\* LiveInterface.tsx 75-93: setupCallEventHandlers(call)
SetupCallEventHandlers(s, i, k) ==
  LET s1 == [s EXCEPT !.views[i].callRef = k, !.calls[k].hookedBy = i]
  IN SetCallStatus(SetCallActive(s1, i, TRUE), i, "Connected")

\* history: the pending requests of instance i are marked as overtaken by an
\* endCall (the code keeps no such mark; the continuation never looks)
MarkEnded(B, i) ==
  LET mark(a) == IF a.inst = i THEN [a EXCEPT !.ended = TRUE] ELSE a
      S == {mark(a) : a \in BagToSet(B)}
  IN [x \in S |->
        IF x.inst = i
        THEN CopiesIn(x, B) + CopiesIn([x EXCEPT !.ended = FALSE], B)
        ELSE CopiesIn(x, B)]

\* LiveInterface.tsx 95-107: endCall() of instance i.  close() marks the call
\* closed and, when sync, emits its 'close' event inside the call, which runs
\* the endCall of the instance whose handlers the call carries
RECURSIVE EndCall(_, _, _)
EndCall(s, i, sync) ==
  LET c == s.views[i].callRef
      s1 == IF c # 0 /\ s.calls[c].st # "closed"
            THEN LET sc == [s EXCEPT !.calls[c].st = "closed"]
                 IN IF sync /\ sc.calls[c].hookedBy # 0
                    THEN EndCall(sc, sc.calls[c].hookedBy, sync)
                    ELSE sc
            ELSE s
      m == s1.views[i].localStreamRef
      s2 == IF m # 0 THEN [s1 EXCEPT !.streams[m].st = "stopped"] ELSE s1
      s3 == SetCallStatus(SetCallActive(s2, i, FALSE), i, "Call ended")
  IN [s3 EXCEPT !.views[i].callRef = 0, !.incomingCall = 0,
                !.acq = MarkEnded(s3.acq, i)]

\* LiveInterface.tsx 41-54 after the await, then the rest of startCall
\* (59-63) or answerCall (69-72), for the pending request a
Resume(s, a, success) ==
  IF ~success
  THEN SetCallStatus(s, a.inst, MediaError)
  ELSE IF FreeStreams(s) = {} THEN [s EXCEPT !.ok = FALSE]
  ELSE LET m == Min(FreeStreams(s))
           s1 == [s EXCEPT !.streams[m] = [st |-> "live", by |-> a.inst],
                           !.views[a.inst].localStreamRef = m]
       IN IF a.kind = "start"
          THEN IF a.peer = 0 THEN s1
               ELSE IF FreeCalls(s1) = {} THEN [s1 EXCEPT !.ok = FALSE]
               ELSE LET k == Min(FreeCalls(s1))
                        s2 == [s1 EXCEPT
                                 !.calls[k] = [st |-> "live", dir |-> "out",
                                               hookedBy |-> 0, busy |-> FALSE]]
                    IN SetupCallEventHandlers(
                         SetCallStatus(s2, a.inst, "Calling..."), a.inst, k)
          ELSE LET s2 == IF s1.calls[a.call].st = "ringing"
                         THEN [s1 EXCEPT !.calls[a.call].st = "live"]
                         ELSE s1
               IN SetupCallEventHandlers(s2, a.inst, a.call)

\* the call is the one registered in the mounted instance
RegisteredCall(k) == liveInst # 0 /\ views[liveInst].callRef = k

\* ---- two endpoints (constants.ts 10-18: each one's target is the other) ---

Endpoints == {"A", "B"}
Other(e) == IF e = "A" THEN "B" ELSE "A"

\* the Dashboard of an endpoint after its mount effect ran initializePeer()
EndInit ==
  [peerRef |-> 1,
   peers |-> [p \in PeerIds |-> IF p = 1 THEN "init" ELSE "unborn"],
   connectionRef |-> 0, conns |-> [c \in ConnIds |-> Unborn],
   isConnected |-> FALSE, retryTimeoutRef |-> 0,
   timers |-> [t \in TimerIds |-> "unborn"], messages |-> <<>>,
   cap |-> MaxConns + 1, tx |-> NoTx, peer |-> 0, ok |-> TRUE]

PairIdle ==
  /\ ends = [e \in Endpoints |-> EndInit]
  /\ links = {}

\* a Dashboard taken alone: no pair of endpoints is followed
PairAbsent ==
  /\ ends = <<>>
  /\ links = {}

\* the outbound connections that a handler created at endpoint e
Offers(e, before, after) ==
  {[orig |-> e, oid |-> c, rid |-> 0] :
     c \in {x \in ConnIds : before.conns[x].st = "unborn"
                              /\ after.conns[x].dir = "out"}}

\* a handler ran at endpoint e and left its Dashboard in state s
PairSet(e, s) ==
  /\ s.ok
  /\ ends' = [ends EXCEPT ![e] = s]
  /\ links' = links \cup Offers(e, ends[e], s)
  /\ UNCHANGED <<peerRef, peers, connectionRef, conns, isConnected,
                 retryTimeoutRef, timers, messages, mounted, connCap, tx,
                 lastOp, peer>>
  /\ UNCHANGED callVars

\* ---- initial state: after the mount effect ran initializePeer() ----------
Init ==
  /\ peerRef = 1
  /\ peers = [p \in PeerIds |-> IF p = 1 THEN "init" ELSE "unborn"]
  /\ connectionRef = 0
  /\ conns = [c \in ConnIds |-> Unborn]
  /\ isConnected = FALSE
  /\ retryTimeoutRef = 0
  /\ timers = [t \in TimerIds |-> "unborn"]
  /\ messages = <<>>
  /\ mounted = TRUE
  /\ connCap = MaxConns
  /\ tx = NoTx
  /\ peer = 0
  /\ CallIdle
  /\ PairAbsent
  /\ lastOp = [op |-> "init", reg |-> FALSE]

\* both endpoints after their mount effects
InitPair ==
  /\ peerRef = 1
  /\ peers = [p \in PeerIds |-> IF p = 1 THEN "init" ELSE "unborn"]
  /\ connectionRef = 0
  /\ conns = [c \in ConnIds |-> Unborn]
  /\ isConnected = FALSE
  /\ retryTimeoutRef = 0
  /\ timers = [t \in TimerIds |-> "unborn"]
  /\ messages = <<>>
  /\ mounted = TRUE
  /\ connCap = MaxConns
  /\ tx = NoTx
  /\ peer = 0
  /\ CallIdle
  /\ PairIdle
  /\ lastOp = [op |-> "init", reg |-> FALSE]

\* the same initial state with room for one more connection
InitWide ==
  /\ peerRef = 1
  /\ peers = [p \in PeerIds |-> IF p = 1 THEN "init" ELSE "unborn"]
  /\ connectionRef = 0
  /\ conns = [c \in ConnIds |-> Unborn]
  /\ isConnected = FALSE
  /\ retryTimeoutRef = 0
  /\ timers = [t \in TimerIds |-> "unborn"]
  /\ messages = <<>>
  /\ mounted = TRUE
  /\ connCap = MaxConns + 1
  /\ tx = NoTx
  /\ peer = 0
  /\ CallIdle
  /\ PairAbsent
  /\ lastOp = [op |-> "init", reg |-> FALSE]

\* ---- actions --------------------------------------------------------------

\* Dashboard.tsx 71-76: the Peer's 'open' event
PeerOpen ==
  /\ peerRef # 0 /\ peers[peerRef] = "init"
  /\ Set(ConnectToPeer([Cur EXCEPT !.peers[peerRef] = "open",
                                   !.peer = peerRef]))
  /\ lastOp' = [op |-> "peerOpen", reg |-> FALSE]
  /\ UNCHANGED mounted

\* Dashboard.tsx 78-81: the Peer's 'connection' event with a new inbound
\* DataConnection
Incoming ==
  /\ peerRef # 0 /\ peers[peerRef] = "open"
  /\ FreeConns(Cur) # {}
  /\ LET c == Min(FreeConns(Cur))
     IN /\ Set(SetupConnection(
                 [Cur EXCEPT !.conns[c] =
                    [st |-> "connecting", hooked |-> FALSE, dir |-> "in"]], c))
        /\ lastOp' = [op |-> "incoming", reg |-> FALSE]
  /\ UNCHANGED mounted

\* Dashboard.tsx 89-113: the Peer's 'error' event.  peer-unavailable reports
\* the failure of one outbound attempt, which never opens afterwards
PeerError ==
  /\ peerRef # 0 /\ peers[peerRef] \in {"init", "open"}
  /\ \/ \E c \in ConnIds :
          /\ conns[c].st = "connecting" /\ conns[c].dir = "out"
          /\ Set(OnPeerError([Cur EXCEPT !.conns[c] = Closed],
                             peerRef, "peer-unavailable"))
          /\ lastOp' = [op |-> "peer-unavailable", reg |-> c = connectionRef]
     \/ \E type \in ErrTypes \ {"peer-unavailable"} :
          /\ Set(OnPeerError(Cur, peerRef, type))
          /\ lastOp' = [op |-> IF type \in FatalTypes THEN "fatal" ELSE "other",
                       reg |-> FALSE]
  /\ UNCHANGED mounted

\* the 'open' event of a connection that has handlers; the .open flag is
\* set just before the event is emitted
ConnOpen ==
  \E c \in ConnIds :
    /\ conns[c].st = "connecting" /\ conns[c].hooked
    /\ Set(OnConnOpen([Cur EXCEPT !.conns[c].st = "open"], c))
    /\ lastOp' = [op |-> "connOpen", reg |-> c = connectionRef]
    /\ UNCHANGED mounted

\* a 'data' event of an open connection
ConnData ==
  \E c \in ConnIds, d \in Payloads :
    /\ conns[c].st = "open" /\ conns[c].hooked
    /\ Len(messages) < MaxLog
    /\ Set(OnConnData(Cur, c, d))
    /\ lastOp' = [op |-> "connData", reg |-> c = connectionRef, msg |-> d]
    /\ UNCHANGED mounted

\* the 'close' event of a connection (remote close or transport failure)
ConnClose ==
  \E c \in ConnIds :
    /\ Live(conns[c]) /\ conns[c].hooked
    /\ Set(OnConnClose([Cur EXCEPT !.conns[c] = Closed], c))
    /\ lastOp' = [op |-> "connClose", reg |-> c = connectionRef]
    /\ UNCHANGED mounted

\* an 'error' event of a connection; the connection itself stays as it is
ConnError ==
  \E c \in ConnIds :
    /\ Live(conns[c]) /\ conns[c].hooked
    /\ Set(OnConnError(Cur, c))
    /\ lastOp' = [op |-> "connError", reg |-> c = connectionRef]
    /\ UNCHANGED mounted

\* a pending timer fires: connectToPeer() (Dashboard.tsx 103-105, 174)
TimerFire ==
  \E t \in Pending(timers) :
    /\ Set(ConnectToPeer([Cur EXCEPT !.timers[t] = "fired"]))
    /\ lastOp' = [op |-> IF timers[t] = "pu" THEN "retryAfterUnavailable"
                                             ELSE "retryAfterClose",
                  reg |-> FALSE]
    /\ UNCHANGED mounted

\* Dashboard.tsx 188-191: manualReconnect(), the "Reset Connection" button,
\* rendered only while not connected (Dashboard.tsx 266-278)
ManualReconnect ==
  /\ mounted /\ ~isConnected
  /\ \E sync \in SyncChoices :
       Set(InitializePeer([Cur EXCEPT !.isConnected = FALSE], sync))
  /\ lastOp' = [op |-> "manualReconnect", reg |-> FALSE]
  /\ UNCHANGED mounted

\* Dashboard.tsx 36-38: the effect's cleanup
Teardown ==
  /\ mounted
  /\ \E sync \in SyncChoices : Set(CleanupPeer(Cur, sync))
  /\ lastOp' = [op |-> "teardown", reg |-> FALSE]
  /\ mounted' = FALSE

\* Dashboard.tsx 28-40: the effect runs again after its cleanup
Remount ==
  /\ ~mounted
  /\ \E sync \in SyncChoices : Set(InitializePeer(Cur, sync))
  /\ lastOp' = [op |-> "remount", reg |-> FALSE]
  /\ mounted' = TRUE

\* Dashboard.tsx 89-113 on a Peer that was already destroyed: its handlers
\* are never removed, and a destroyed Peer still reports 'disconnected' when
\* it is used (LiveInterface calls through the peer state, which keeps the
\* old Peer until the new one opens)
LatePeerError ==
  \E p \in PeerIds, type \in FatalTypes :
    /\ peers[p] = "destroyed"
    /\ Set(OnPeerError(Cur, p, type))
    /\ lastOp' = [op |-> "fatalDestroyed", reg |-> FALSE]
    /\ UNCHANGED mounted

\* the user submits a message: handleSend, then sendMessage
Send ==
  /\ mounted
  /\ Len(messages) < MaxLog
  /\ \E text \in Payloads :
       \/ /\ connectionRef = 0 \/ ~isConnected
          /\ Set(SendMessage(Cur, text, "ok"))
          /\ lastOp' = [op |-> "sendRefused", reg |-> FALSE]
       \/ /\ connectionRef # 0 /\ isConnected
          /\ \E outcome \in SendOutcomes(connectionRef) :
               /\ Set(SendMessage(Cur, text, outcome))
               /\ lastOp' = [op |-> IF outcome = "ok" THEN "sendOk"
                                    ELSE IF outcome = "throw" THEN "sendThrow"
                                    ELSE "sendNotOpen",
                             reg |-> FALSE]
  /\ UNCHANGED mounted

\* ---- actions of the call view ---------------------------------------------

\* Dashboard.tsx 83-87: the Peer's 'call' event: setIncomingCall(call) and
\* setCurrentView(LIVE), which mounts LiveInterface or re-runs its
\* incomingCall effect
IncomingCall ==
  /\ mounted /\ peerRef # 0 /\ peers[peerRef] = "open"
  /\ FreeCalls(CCur) # {}
  /\ LET k == Min(FreeCalls(CCur))
         busy == liveInst # 0 /\ views[liveInst].callActive
         s1 == [CCur EXCEPT !.incomingCall = k,
                            !.calls[k] = [st |-> "ringing", dir |-> "in",
                                          hookedBy |-> 0, busy |-> busy]]
     IN /\ CSet(IF liveInst = 0 THEN Mount(s1)
                ELSE IncomingCallEffect(s1, liveInst))
        /\ lastOp' = [op |-> "incomingCall", reg |-> busy]

\* Dashboard.tsx 246: the user opens the call view
GoLive ==
  /\ mounted /\ liveInst = 0
  /\ CSet(Mount(CCur))
  /\ lastOp' = [op |-> "goLive", reg |-> FALSE]

\* Dashboard.tsx 238: the user leaves the call view; LiveInterface unmounts
\* and its cleanup (LiveInterface.tsx 27-29) runs endCall()
LeaveLive ==
  /\ mounted /\ liveInst # 0
  /\ \E sync \in BOOLEAN :
       CSet([EndCall(CCur, liveInst, sync) EXCEPT !.liveInst = 0])
  /\ lastOp' = [op |-> "leaveLive", reg |-> FALSE]

\* the "Start Call" button, rendered only while the call is not active
StartCallClick ==
  /\ mounted /\ liveInst # 0 /\ ~views[liveInst].callActive
  /\ CSet(StartCall(CCur, liveInst))
  /\ lastOp' = [op |-> "startCall", reg |-> FALSE]

\* a pending getUserMedia request resolves or rejects
AcquireDone ==
  \E a \in BagToSet(acq) :
    LET s1 == [CCur EXCEPT !.acq = acq (-) SetToBag({a})]
    IN \/ /\ CSet(Resume(s1, a, TRUE))
          /\ lastOp' = [op |-> "acquired", reg |-> a.inst = liveInst]
       \/ /\ CSet(Resume(s1, a, FALSE))
          /\ lastOp' = [op |-> "acquireFailed", reg |-> a.inst = liveInst]

\* the 'close' event of a call (the remote side hung up)
CallClose ==
  \E k \in CallIds, sync \in BOOLEAN :
    /\ calls[k].st \in {"ringing", "live"}
    /\ LET s1 == [CCur EXCEPT !.calls[k].st = "closed"]
       IN CSet(IF calls[k].hookedBy # 0
               THEN EndCall(s1, calls[k].hookedBy, sync) ELSE s1)
    /\ lastOp' = [op |-> "callClose", reg |-> RegisteredCall(k)]

\* the 'error' event of a call that has handlers
CallError ==
  \E k \in CallIds, sync \in BOOLEAN :
    /\ calls[k].st = "live" /\ calls[k].hookedBy # 0
    /\ CSet(EndCall(CCur, calls[k].hookedBy, sync))
    /\ lastOp' = [op |-> "callError", reg |-> RegisteredCall(k)]

\* the end-call button, rendered only while the call is active
EndCallClick ==
  /\ mounted /\ liveInst # 0 /\ views[liveInst].callActive
  /\ \E sync \in BOOLEAN : CSet(EndCall(CCur, liveInst, sync))
  /\ lastOp' = [op |-> "endCall", reg |-> FALSE]

Next ==
  \/ PeerOpen
  \/ Incoming
  \/ PeerError
  \/ ConnOpen
  \/ ConnData
  \/ ConnClose
  \/ ConnError
  \/ TimerFire
  \/ ManualReconnect
  \/ Teardown
  \/ Remount

Spec == Init /\ [][Next]_vars

SpecWide == InitWide /\ [][Next]_vars

\* the lifecycle together with the Message Channel's send
NextSend == Next \/ Send

SpecSend == Init /\ [][NextSend]_vars

\* the lifecycle together with the error events of destroyed Peers
NextLate == Next \/ LatePeerError

SpecLate == Init /\ [][NextLate]_vars

\* ---- actions of the two endpoints ----------------------------------------

\* Dashboard.tsx 71-76 at endpoint e
PairPeerOpen ==
  \E e \in Endpoints :
    LET s == ends[e] IN
    /\ s.peerRef # 0 /\ s.peers[s.peerRef] = "init"
    /\ PairSet(e, ConnectToPeer([s EXCEPT !.peers[s.peerRef] = "open",
                                          !.peer = s.peerRef]))

\* Dashboard.tsx 78-81 at the target of an offer: its Peer is open and emits
\* 'connection' with a new inbound DataConnection
PairDeliver ==
  \E l \in links :
    LET r == Other(l.orig)
        s == ends[r]
    IN /\ l.rid = 0
       /\ ends[l.orig].conns[l.oid].st = "connecting"
       /\ s.peerRef # 0 /\ s.peers[s.peerRef] = "open"
       /\ FreeConns(s) # {}
       /\ LET c == Min(FreeConns(s))
          IN /\ s.ok
             /\ ends' = [ends EXCEPT ![r] =
                   SetupConnection(
                     [s EXCEPT !.conns[c] =
                        [st |-> "connecting", hooked |-> FALSE,
                         dir |-> "in"]], c)]
             /\ links' = (links \ {l}) \cup {[l EXCEPT !.rid = c]}
       /\ UNCHANGED <<peerRef, peers, connectionRef, conns, isConnected,
                      retryTimeoutRef, timers, messages, mounted, connCap,
                      tx, lastOp, peer>>
       /\ UNCHANGED callVars

\* Dashboard.tsx 92-105 at the originator of an offer whose target has no
\* open Peer yet: the server reports peer-unavailable
PairUnavailable ==
  \E l \in links :
    LET e == l.orig
        s == ends[e]
        r == ends[Other(e)]
    IN /\ l.rid = 0
       /\ s.conns[l.oid].st = "connecting"
       /\ s.peerRef # 0 /\ s.peers[s.peerRef] = "open"
       /\ r.peers[r.peerRef] = "init"
       /\ LET s1 == OnPeerError([s EXCEPT !.conns[l.oid] = Closed],
                                s.peerRef, "peer-unavailable")
          IN /\ s1.ok
             /\ ends' = [ends EXCEPT ![e] = s1]
             /\ links' = links \ {l}
       /\ UNCHANGED <<peerRef, peers, connectionRef, conns, isConnected,
                      retryTimeoutRef, timers, messages, mounted, connCap,
                      tx, lastOp, peer>>
       /\ UNCHANGED callVars

\* Dashboard.tsx 103-105 at endpoint e: the retry timer fires
PairTimerFire ==
  \E e \in Endpoints :
    \E t \in Pending(ends[e].timers) :
      PairSet(e, ConnectToPeer([ends[e] EXCEPT !.timers[t] = "fired"]))

\* Dashboard.tsx 150-159 at one end of a delivered link: the connection
\* opens there (a connection without handlers opens silently)
PairConnOpen ==
  \E l \in links, e \in Endpoints :
    LET c == IF e = l.orig THEN l.oid ELSE l.rid
        s == ends[e]
    IN /\ l.rid # 0
       /\ s.conns[c].st = "connecting"
       /\ LET s1 == [s EXCEPT !.conns[c].st = "open"]
          IN PairSet(e, IF s.conns[c].hooked THEN OnConnOpen(s1, c) ELSE s1)

NextPair ==
  \/ PairPeerOpen
  \/ PairDeliver
  \/ PairUnavailable
  \/ PairTimerFire
  \/ PairConnOpen

SpecPair == InitPair /\ [][NextPair]_vars

\* the call view over a Dashboard whose Peer opens and then stays as it is
NextCall ==
  \/ PeerOpen
  \/ IncomingCall
  \/ GoLive
  \/ LeaveLive
  \/ StartCallClick
  \/ AcquireDone
  \/ CallClose
  \/ CallError
  \/ EndCallClick

SpecCall == Init /\ [][NextCall]_vars

\* Scenario C's starting point: the Peer opened, the first connection opened
\* and then emitted 'close' (PeerOpen, ConnOpen, ConnClose from InitWide), so
\* connected is false and the close handler's retry is pending
InitAfterClose ==
  /\ peerRef = 1
  /\ peers = [p \in PeerIds |-> IF p = 1 THEN "open" ELSE "unborn"]
  /\ connectionRef = 0
  /\ conns = [c \in ConnIds |-> IF c = 1 THEN Closed ELSE Unborn]
  /\ isConnected = FALSE
  /\ retryTimeoutRef = 1
  /\ timers = [t \in TimerIds |-> IF t = 1 THEN "close" ELSE "unborn"]
  /\ messages = <<>>
  /\ mounted = TRUE
  /\ connCap = MaxConns + 1
  /\ tx = NoTx
  /\ peer = 1
  /\ CallIdle
  /\ PairAbsent
  /\ lastOp = [op |-> "connClose", reg |-> TRUE]

SpecAfterClose == InitAfterClose /\ [][Next]_vars

\* InitAfterClose is a state the program reaches from its initial state
AfterCloseUnreached ==
  ~ /\ peerRef = 1 /\ peers[1] = "open" /\ peers[2] = "unborn"
    /\ connectionRef = 0
    /\ conns = [c \in ConnIds |-> IF c = 1 THEN Closed ELSE Unborn]
    /\ ~isConnected /\ retryTimeoutRef = 1
    /\ timers = [t \in TimerIds |-> IF t = 1 THEN "close" ELSE "unborn"]
    /\ messages = <<>> /\ mounted /\ tx = NoTx /\ peer = 1 /\ CallIdle
    /\ lastOp = [op |-> "connClose", reg |-> TRUE]

TypeOK ==
  /\ peerRef \in 0..MaxPeers
  /\ connectionRef \in 0..MaxConns
  /\ retryTimeoutRef \in 0..MaxTimers
  /\ isConnected \in BOOLEAN
  /\ Len(messages) <= MaxLog
  /\ tx.conn \in 0..(MaxConns + 1)
  /\ tx.msg \in Payloads \cup {""}

\* ---- properties -----------------------------------------------------------

RetryOps == {"retryAfterUnavailable", "retryAfterClose"}
TeardownOps == {"teardown", "manualReconnect", "remount"}
Registered == connectionRef # 0 /\ Live(conns[connectionRef])
OutIds(cs) == {c \in ConnIds : cs[c].dir = "out"}
BornConns(cs) == {c \in ConnIds : cs[c].st # "unborn"}
BornTimers(tm) == {t \in TimerIds : tm[t] # "unborn"}

\* C1: a handle registered while Connecting or Open leaves the slot only
\* through its own close/error event (or the failure report of its own
\* attempt) or through teardown; no second attempt displaces it.
C1_NeverDisplaced ==
  [][(Registered /\ connectionRef' # connectionRef) =>
       \/ lastOp'.op \in TeardownOps
       \/ /\ lastOp'.op \in {"connClose", "connError", "peer-unavailable"}
          /\ lastOp'.reg]_vars

\* C2: connectToPeer (run by a retry timer or by the Peer's open event) is a
\* no-op while a handle is registered Connecting or Open: no handle is
\* created, the slot, connected flag and retry timer are untouched.
C2_ConnectNoOp ==
  [][(lastOp'.op \in RetryOps \cup {"peerOpen"} /\ Registered) =>
       /\ connectionRef' = connectionRef
       /\ conns' = conns
       /\ isConnected' = isConnected
       /\ retryTimeoutRef' = retryTimeoutRef
       /\ BornTimers(timers') = BornTimers(timers)
       /\ Pending(timers') \subseteq Pending(timers)
       /\ peerRef' = peerRef]_vars

\* C2 witness: the retry of a peer-unavailable error fired while an inbound
\* handle was registered and still Connecting.
C2_Witness ==
  /\ lastOp.op = "retryAfterUnavailable"
  /\ connectionRef # 0
  /\ conns[connectionRef].st = "connecting"
  /\ conns[connectionRef].dir = "in"

\* C3: an inbound connection arriving while the registered handle is Open is
\* ignored (not adopted, not closed, no handlers, nothing else changes); one
\* arriving while no handle is registered becomes the registered handle with
\* the handlers attached.
C3_AcceptIncoming ==
  [][lastOp'.op = "incoming" =>
       LET c == Min(FreeConns(Cur)) IN
       /\ conns'[c].st = "connecting" /\ conns'[c].dir = "in"
       /\ \A d \in ConnIds \ {c} : conns'[d] = conns[d]
       /\ (connectionRef # 0 /\ conns[connectionRef].st = "open") =>
            /\ connectionRef' = connectionRef
            /\ ~conns'[c].hooked
            /\ UNCHANGED <<peerRef, peers, isConnected, retryTimeoutRef,
                           timers, messages>>
       /\ connectionRef = 0 =>
            /\ connectionRef' = c
            /\ conns'[c].hooked
            /\ UNCHANGED <<peerRef, peers, isConnected, retryTimeoutRef,
                           timers, messages>>]_vars

\* C3 witness: an inbound connection was just ignored because the registered
\* handle is Open.
C3_Witness ==
  /\ lastOp.op = "incoming"
  /\ connectionRef # 0
  /\ conns[connectionRef].st = "open"
  /\ \E c \in ConnIds \ {connectionRef} :
       conns[c].st = "connecting" /\ conns[c].dir = "in" /\ ~conns[c].hooked

\* C4: an open, close or error event of a handle that is not the registered
\* one never changes the connected flag, the slot or the retry timer.
C4_StaleEventImmunity ==
  [][(lastOp'.op \in {"connOpen", "connClose", "connError"}
        /\ ~lastOp'.reg) =>
       UNCHANGED <<isConnected, connectionRef, retryTimeoutRef, timers>>]_vars

\* C5: a data event appends to the log only if its handle is the registered
\* one; data of any other handle leaves the log unchanged.
C5_DataOnlyFromRegistered ==
  [][(lastOp'.op = "connData" /\ ~lastOp'.reg) =>
       messages' = messages]_vars

\* C6: at most one retry timer is outstanding in every reachable state.
C6_SingleOutstandingTimer ==
  Cardinality(Pending(timers)) <= 1

\* C7 (as stated): the retry scheduled for a peer-unavailable error always
\* fires, one attemptConnect per failure; outside teardown it is never
\* canceled.
C7_RetryAlwaysFires ==
  [][lastOp'.op \notin TeardownOps =>
       \A t \in TimerIds :
         timers[t] = "pu" => timers'[t] \in {"pu", "fired"}]_vars

\* C7 (amended): a peer-unavailable error leaves the Signaling Handle as it
\* is, cancels the timer tracked so far and schedules exactly one new retry,
\* tracked by retryTimeoutRef; such a retry ends only by firing once or by
\* being canceled by a connection's open event, a later peer-unavailable
\* error or teardown/reset.
C7_OneRetryScheduledPerFailure ==
  [][/\ lastOp'.op = "peer-unavailable" =>
          /\ peerRef' = peerRef /\ peers' = peers
          /\ Cardinality(BornTimers(timers') \ BornTimers(timers)) = 1
          /\ retryTimeoutRef' \in BornTimers(timers') \ BornTimers(timers)
          /\ timers'[retryTimeoutRef'] = "pu"
          /\ \A t \in BornTimers(timers) :
               timers'[t] = IF t = retryTimeoutRef /\ t \in Pending(timers)
                            THEN "canceled" ELSE timers[t]
     /\ \A t \in TimerIds :
          (timers[t] = "pu" /\ timers'[t] # "pu") =>
             \/ timers'[t] = "fired" /\ lastOp'.op = "retryAfterUnavailable"
             \/ /\ timers'[t] = "canceled"
                /\ t = retryTimeoutRef
                /\ lastOp'.op \in {"connOpen", "peer-unavailable",
                                   "teardown", "manualReconnect"}]_vars

\* C7 witness: a peer-unavailable error was just handled on a live Signaling
\* Handle, its retry is pending and tracked, and a retry has been canceled.
C7_Witness ==
  /\ lastOp.op = "peer-unavailable"
  /\ retryTimeoutRef # 0 /\ timers[retryTimeoutRef] = "pu"
  /\ \E t \in TimerIds : timers[t] = "canceled"
  /\ peerRef # 0 /\ peers[peerRef] \in {"init", "open"}

\* C8: right after the registered handle's open event, connected is true and
\* no retry timer is outstanding.
C8_OpenCancelsRetry ==
  (lastOp.op = "connOpen" /\ lastOp.reg) =>
     isConnected /\ Pending(timers) = {}

\* C9: a retry scheduled by a close event that fires while an adopted
\* inbound handle is registered (Connecting or Open) creates no outbound
\* handle and leaves the adopted handle registered.
C9_RetryAfterAdoption ==
  [][\A t \in TimerIds :
       (/\ timers[t] = "close" /\ timers'[t] = "fired"
        /\ connectionRef # 0 /\ conns[connectionRef].dir = "in") =>
          /\ connectionRef' = connectionRef
          /\ OutIds(conns') = OutIds(conns)
          /\ BornConns(conns') = BornConns(conns)]_vars

\* C9 witness: after a connection closed, the retry of the close event
\* fired while an adopted inbound handle is registered and still Connecting.
C9_Witness ==
  /\ lastOp.op = "retryAfterClose"
  /\ \E c \in ConnIds : conns[c].st = "closed"
  /\ connectionRef # 0
  /\ conns[connectionRef].dir = "in"
  /\ conns[connectionRef].st = "connecting"

\* C10: after cleanupPeer both references are null, connected is false and
\* no retry timer is scheduled; running it once more changes nothing.
C10_TeardownLeavesNothing ==
  lastOp.op = "teardown" =>
    /\ connectionRef = 0 /\ peerRef = 0 /\ ~isConnected
    /\ Pending(timers) = {}
    /\ \A again \in BOOLEAN : CleanupPeer(Cur, again) = Cur

\* C11: the registered handle's close event clears the slot, sets connected
\* to false and schedules exactly one retry; a close event delivered during
\* teardown (cleanupPeer, also as run by manualReconnect) schedules none.
C11_CloseSchedulesUnlessTeardown ==
  [][/\ (lastOp'.op = "connClose" /\ lastOp'.reg) =>
          /\ connectionRef' = 0 /\ ~isConnected'
          /\ Cardinality(BornTimers(timers') \ BornTimers(timers)) = 1
     /\ lastOp'.op \in {"teardown", "manualReconnect"} =>
          BornTimers(timers') = BornTimers(timers)]_vars

\* C12: while the session is up (mounted, Signaling Handle open) and no
\* handle is registered, recovery is under way: a retry is pending.
C12_RecoveryNeverStalls ==
  (/\ mounted /\ peerRef # 0 /\ peers[peerRef] = "open"
   /\ connectionRef = 0) =>
     Pending(timers) # {}

SendOps == {"sendRefused", "sendOk", "sendThrow", "sendNotOpen"}

\* C18: a send made while no registered handle is open transmits nothing and
\* leaves the message log, the registered handle and the connected status
\* unchanged.
C18_SendRefusedUnlessOpen ==
  [][(/\ lastOp'.op \in SendOps
      /\ (connectionRef = 0 \/ conns[connectionRef].st # "open")) =>
       /\ tx' = NoTx
       /\ messages' = messages
       /\ connectionRef' = connectionRef
       /\ isConnected' = isConnected]_vars

\* C19: a successful send on the open registered handle passes the message to
\* that handle and appends exactly that message, once, to the end of the log.
C19_SendTransmitsAndAppends ==
  [][lastOp'.op = "sendOk" =>
       /\ connectionRef # 0 /\ conns[connectionRef].st = "open"
       /\ tx'.conn = connectionRef /\ tx'.msg \in Payloads
       /\ messages' = Append(messages, tx'.msg)
       /\ connectionRef' = connectionRef /\ isConnected' = isConnected]_vars

\* a second message was sent successfully after a different first one
C19_Witness ==
  /\ lastOp.op = "sendOk" /\ tx.conn = connectionRef
  /\ Len(messages) = 2 /\ messages[1] # messages[2] /\ messages[2] = tx.msg

\* C20: when connection.send throws, the message is not logged, connected
\* becomes false, and a new connection attempt is started or a retry is
\* scheduled.
C20_ThrowStartsRecovery ==
  [][lastOp'.op = "sendThrow" =>
       /\ messages' = messages /\ ~isConnected'
       /\ \/ BornConns(conns') # BornConns(conns)
          \/ BornTimers(timers') # BornTimers(timers)]_vars

\* ---- properties of the call view ------------------------------------------

\* C13: an incoming call that arrives while the mounted call view has an
\* active call changes nothing of that view, its call or its streams, starts
\* no media request, and is never answered afterwards.
C13_IncomingWhileActiveIgnored ==
  [][/\ (lastOp'.op = "incomingCall" /\ lastOp'.reg) =>
          /\ views' = views /\ streams' = streams /\ acq' = acq
          /\ \A k \in CallIds :
               calls[k].st # "unborn" => calls'[k] = calls[k]
     /\ \A k \in CallIds :
          calls'[k].busy =>
            /\ calls'[k].hookedBy = 0
            /\ calls'[k].st \in {"ringing", "closed"}
            /\ \A a \in BagToSet(acq') : a.kind = "answer" => a.call # k]_vars

\* a call arrived during an active call, the active call was ended, and the
\* late call is still unanswered
C13_Witness ==
  /\ lastOp.op = "endCall"
  /\ \E k \in CallIds : calls[k].busy /\ calls[k].st = "ringing"

\* C14: at most one call is placed or answered and not yet closed, and a
\* live call registered in callRef is never replaced by another call.
C14_AtMostOneCall ==
  [][/\ Cardinality(LiveCalls(calls')) <= 1
     /\ \A i \in InstIds :
          LET c == views[i].callRef
          IN (c # 0 /\ calls[c].st = "live" /\ views'[i].callRef # c) =>
               views'[i].callRef = 0]_vars

\* C15: a close or error event of a call that is not the one registered in
\* the mounted view leaves the registered call, the active flag and the
\* current local stream as they are.
C15_StaleCallEventImmunity ==
  [][(/\ lastOp'.op \in {"callClose", "callError"} /\ ~lastOp'.reg
      /\ liveInst # 0) =>
       LET v == views[liveInst]
       IN /\ views'[liveInst].callRef = v.callRef
          /\ views'[liveInst].callActive = v.callActive
          /\ v.callRef # 0 => calls'[v.callRef].st = calls[v.callRef].st
          /\ v.localStreamRef # 0 =>
               streams'[v.localStreamRef] = streams[v.localStreamRef]]_vars

\* C16: when a media request of the mounted view fails, no call is placed or
\* answered, no call is left registered or active, and the status shows the
\* media error.
C16_AcquireFailureLeavesIdle ==
  [][(lastOp'.op = "acquireFailed" /\ lastOp'.reg) =>
       /\ calls' = calls /\ streams' = streams
       /\ views'[liveInst].callRef = 0
       /\ ~views'[liveInst].callActive
       /\ views'[liveInst].callStatus = MediaError]_vars

\* C17: endCall (the end-call button or the unmount cleanup) closes the
\* registered call, leaves no local stream of the view running, resets
\* callRef and callActive, and running it again changes nothing.
C17_EndCallResetsAndStops ==
  [][lastOp'.op \in {"endCall", "leaveLive"} =>
       LET i == liveInst
           c == views[i].callRef
           post == CRec(peer', incomingCall', liveInst', views', calls',
                        streams', acq')
       IN /\ views'[i].callRef = 0 /\ ~views'[i].callActive
          /\ c # 0 => calls'[c].st = "closed"
          /\ \A m \in StreamIds : streams'[m].by = i => streams'[m].st # "live"
          /\ \A sync \in BOOLEAN : EndCall(post, i, sync) = post]_vars

\* ---- properties of re-initialisation and of the error handler -------------

LivePeers(ps) == {p \in PeerIds : ps[p] \in {"init", "open"}}

\* C21: after initializePeer (as run by manualReconnect or by the effect)
\* exactly one Peer is live and it is the new one, the previous Peer is
\* destroyed, no connection is registered, connected is false and no retry
\* timer is pending.
C21_ReinitTearsDownFirst ==
  [][lastOp'.op \in {"manualReconnect", "remount"} =>
       /\ LivePeers(peers') = {peerRef'}
       /\ peerRef' # peerRef
       /\ peerRef # 0 => peers'[peerRef] = "destroyed"
       /\ connectionRef' = 0 /\ ~isConnected'
       /\ Pending(timers') = {}]_vars

\* C22: a fatal signaling error sets connected to false; a Peer that is not
\* destroyed is reconnected (it is connecting to the server again), and for
\* a destroyed Peer the mounted session is re-initialised with a fresh Peer.
C22_FatalReconnectsOrReinits ==
  [][/\ lastOp'.op = "fatal" =>
          /\ ~isConnected'
          /\ peerRef' = peerRef /\ peers'[peerRef] = "init"
     /\ (lastOp'.op = "fatalDestroyed" /\ mounted) =>
          /\ ~isConnected'
          /\ peerRef' # 0 /\ peers[peerRef'] = "unborn"
          /\ peers'[peerRef'] = "init"]_vars

\* C23: an error of a kind the handler does not name changes nothing.
C23_UnclassifiedErrorIgnored ==
  [][lastOp'.op = "other" =>
       /\ peerRef' = peerRef /\ peers' = peers
       /\ connectionRef' = connectionRef /\ conns' = conns
       /\ isConnected' = isConnected
       /\ retryTimeoutRef' = retryTimeoutRef /\ timers' = timers
       /\ messages' = messages]_vars

\* an unclassified error arrived while connected on an open registered
\* connection with a message in the log
C23_Witness ==
  /\ lastOp.op = "other"
  /\ isConnected /\ connectionRef # 0 /\ conns[connectionRef].st = "open"
  /\ messages # <<>>

\* C24: a media request that was overtaken by endCall (or by the unmount of
\* its view) places or answers no call when it resolves, and registers and
\* activates nothing.
C24_ResumeRevalidates ==
  [][(/\ lastOp'.op = "acquired"
      /\ \E a \in BagToSet(acq) :
           a.ended /\ acq' = acq (-) SetToBag({a})) =>
       /\ calls' = calls
       /\ \A i \in InstIds :
            /\ views'[i].callRef = views[i].callRef
            /\ views'[i].callActive = views[i].callActive]_vars

\* C25: the log only grows at its end: a received message is appended as it
\* arrived, duplicates included, a successfully sent message is appended,
\* and no step removes, rewrites or reorders an entry.
C25_LogAppendOnly ==
  [][/\ \/ messages' = messages
        \/ /\ Len(messages') = Len(messages) + 1
           /\ SubSeq(messages', 1, Len(messages)) = messages
     /\ lastOp'.op = "connData" =>
          messages' = Append(messages, lastOp'.msg)
     /\ lastOp'.op = "sendOk" =>
          messages' = Append(messages, tx'.msg)]_vars

\* the same message was received twice in a row and is in the log twice
C25_Witness ==
  /\ lastOp.op = "connData"
  /\ Len(messages) = 2 /\ messages[1] = messages[2]
  /\ messages[2] = lastOp.msg

\* C26: whenever connected is true, a connection is registered and open.
C26_ConnectedImpliesOpenHandle ==
  isConnected => (connectionRef # 0 /\ conns[connectionRef].st = "open")

\* C27: a peer-unavailable error that arrives while the registered
\* connection is open and connected is true leaves connected true and the
\* registered connection in place.
C27_UnavailableWhileOpenIgnored ==
  [][(/\ lastOp'.op = "peer-unavailable"
      /\ isConnected
      /\ connectionRef # 0 /\ conns[connectionRef].st = "open") =>
       /\ isConnected'
       /\ connectionRef' = connectionRef]_vars

\* the outbound connections created by a step
NewOutbound(cs, ds) ==
  {c \in ConnIds : cs[c].st = "unborn" /\ ds[c].dir = "out"}

\* C28: an outbound connection is only ever created on a registered Peer
\* that is open.
C28_ConnectOnlyOnOpenPeer ==
  [][NewOutbound(conns, conns') # {} =>
       /\ peerRef' # 0
       /\ peers'[peerRef'] = "open"]_vars

\* the answerCall invocations for call k that still await their stream
AnswerRequests(k) ==
  BagCardinality([a \in {x \in BagToSet(acq) :
                           x.kind = "answer" /\ x.call = k} |-> acq[a]])

\* C29: an incoming call is answered at most once: at most one answerCall
\* is in progress for it, and none once it was answered.
C29_AnsweredAtMostOnce ==
  \A k \in CallIds :
    AnswerRequests(k) + (IF calls[k].hookedBy # 0 THEN 1 ELSE 0) <= 1

\* C30: when no call is registered and no media request is pending, no
\* local stream is still running.
C30_NoStreamLeak ==
  (/\ \A i \in InstIds : views[i].callRef = 0
   /\ acq = EmptyBag) =>
     \A m \in StreamIds : streams[m].st # "live"

\* ---- properties of two endpoints ------------------------------------------

\* the handle registered at endpoint e is this end of link l
RegisteredEnd(e, l) ==
  ends[e].connectionRef = (IF e = l.orig THEN l.oid ELSE l.rid)

\* every connection of both endpoints that was created has opened or closed
AllSettled ==
  /\ \A l \in links : l.rid # 0
  /\ \A e \in Endpoints, c \in ConnIds : ends[e].conns[c].st # "connecting"
  /\ \A e \in Endpoints : Pending(ends[e].timers) = {}

\* C31: between two endpoints that connect to each other, a registered
\* attempt that is still connecting is never replaced by the other side's
\* inbound connection, and once every connection has opened both endpoints
\* have the two ends of one link registered and both report connected.
C31_SimultaneousConnect ==
  [][/\ \A e \in Endpoints :
          LET c == ends[e].connectionRef
          IN (c # 0 /\ Live(ends'[e].conns[c])) => ends'[e].connectionRef = c
     /\ (AllSettled /\ links # {})' =>
          /\ \A e \in Endpoints : ends'[e].isConnected
          /\ \E l \in links' :
               \A e \in Endpoints : RegisteredEnd(e, l)']_vars


====
